---- MODULE Spec2Model ----
(***************************************************************************)
(* Model of the article discovery pipeline of the AI news aggregator:      *)
(*   utils/content_extractor.py  make_request_with_backoff,                *)
(*                               extract_full_content, extract_metadata,   *)
(*                               find_ai_articles                          *)
(*   utils/ai_analyzer.py        summarize_article                         *)
(*   utils/evaluation_tools.py   validate_ai_relevance                     *)
(*   main.py                     process_batch and the fetch loop of main  *)
(*   agents/search_agent.py      SearchAgent.parse_date                    *)
(* Each component has its own frame variable and its own specification;    *)
(* a specification leaves the frames of the other components untouched.    *)
(***************************************************************************)
EXTENDS Integers, Sequences, FiniteSets, TLC

VARIABLES
    req,    \* the frame of one make_request_with_backoff call
    efc,    \* the frame of one extract_full_content call
    now,    \* the wall clock, datetime.now()
    fa,     \* the frame of one find_ai_articles call
    st,     \* st.session_state, which outlives a fetch run
    scan,   \* the frame of the fetch loop of main and of process_batch
    rel,    \* an article and the verdict of validate_ai_relevance on it
    plog,   \* a log of what process_batch did for the candidates of a run
    ag      \* the frame of one call of the SearchAgent

vars == <<req, efc, now, fa, st, scan, rel, plog, ag>>

(***************************************************************************)
(* Generic helpers                                                         *)
(***************************************************************************)
None == "None"

Range(s) == {s[i] : i \in 1..Len(s)}

RECURSIVE Pow2(_)
Pow2(n) == IF n = 0 THEN 1 ELSE 2 * Pow2(n - 1)

(***************************************************************************)
(* make_request_with_backoff (content_extractor.py 231-252)                *)
(***************************************************************************)
\* default of the parameter max_retries
default_max_retries == 3
\* default of the parameter initial_delay (seconds)
default_initial_delay == 5
\* largest max_retries argument explored
MaxRetriesArg == 4

\* What one requests.get + raise_for_status can do.  "ok" is a 2xx answer;
\* "timeout" and "connection" are raised by requests.get; "404", "429" and
\* "500" are answers on which raise_for_status raises HTTPError.
GetOutcomes == {"ok", "timeout", "connection", "404", "429", "500"}

\* requests.exceptions.RequestException covers Timeout, ConnectionError and
\* HTTPError alike: the except clause of line 247 makes no distinction.
IsRequestException(o) == o \in {"timeout", "connection", "404", "429", "500"}

\* line 239: delay = initial_delay * (2 ** attempt)
BackoffDelay(initial_delay, attempt) == initial_delay * Pow2(attempt)

\* line 249: the handler re-raises on the last attempt only
ReraiseOnMutant(o, attempt, max_retries) == TRUE
ReraiseOn(o, attempt, max_retries) == attempt = max_retries - 1

ReqInit(max_retries) ==
    [pc |-> "loop", max_retries |-> max_retries, attempt |-> 0,
     gets |-> <<>>, sleeps |-> <<>>, result |-> "pending"]

ReqIdle == [pc |-> "idle", max_retries |-> 0, attempt |-> 0,
            gets |-> <<>>, sleeps |-> <<>>, result |-> "pending"]

\* One iteration of the for loop of line 237 with the GET answering o.
RequestAttempt(o) ==
    /\ req.pc = "loop"
    /\ req.attempt < req.max_retries
    /\ LET delay  == BackoffDelay(default_initial_delay, req.attempt)
           slept  == IF req.attempt > 0 THEN Append(req.sleeps, delay)
                     ELSE req.sleeps
           gets   == Append(req.gets, o)
       IN IF ~IsRequestException(o)
          THEN req' = [req EXCEPT !.pc = "done", !.gets = gets,
                                  !.sleeps = slept, !.result = "response"]
          ELSE IF ReraiseOn(o, req.attempt, req.max_retries)
          THEN req' = [req EXCEPT !.pc = "done", !.gets = gets,
                                  !.sleeps = slept, !.result = "raised"]
          ELSE req' = [req EXCEPT !.attempt = @ + 1, !.gets = gets,
                                  !.sleeps = slept]
    /\ UNCHANGED <<efc, now, fa, st, scan, rel, plog, ag>>

\* line 252: the loop ran out without returning or raising
RequestLoopEnd ==
    /\ req.pc = "loop"
    /\ req.attempt >= req.max_retries
    /\ req' = [req EXCEPT !.pc = "done", !.result = None]
    /\ UNCHANGED <<efc, now, fa, st, scan, rel, plog, ag>>

(***************************************************************************)
(* extract_full_content (content_extractor.py 92-125)                      *)
(***************************************************************************)
\* line 97: max_retries = 3
efc_max_retries == 3
\* line 98: retry_delay = 2
retry_delay == 2
\* line 112: the "meaningful content" threshold
MinContentLen == 100

\* line 101-105: extraction_methods, in order of preference
extraction_methods ==
    <<"_extract_with_trafilatura", "_extract_with_newspaper",
      "_extract_with_beautifulsoup">>

\* A text is known by three lengths: raw = len(content), stripped =
\* len(content.strip()) and cleaned = len(_clean_extracted_content(content)).
\* _clean_extracted_content (198-216) collapses whitespace, deletes
\* newsletter phrases and URLs and strips, so cleaned <= stripped <= raw.
TextLens == {0, MinContentLen - 1, MinContentLen, MinContentLen + 1}

Texts ==
    {t \in [kind : {"text"}, raw : TextLens \cup {1, MinContentLen + 2},
            stripped : TextLens, cleaned : TextLens] :
        /\ t.raw \in {t.stripped, t.stripped + 1}
        /\ t.cleaned <= t.stripped}

\* a strategy returned None / a strategy raised
ReturnedNone == [kind |-> "none", raw |-> 0, stripped |-> 0, cleaned |-> 0]
Raised == [kind |-> "raise", raw |-> 0, stripped |-> 0, cleaned |-> 0]

\* What one call of a strategy can give back: a text, None, or an exception.
\* _extract_with_trafilatura (127-140) has no try block, so an exception of
\* fetch_url/extract escapes it; _extract_with_newspaper (142-156) and
\* _extract_with_beautifulsoup (158-196) catch every Exception and return
\* None instead.
MethodOutcomes(method) ==
    IF method = "_extract_with_trafilatura"
    THEN Texts \cup {ReturnedNone, Raised}
    ELSE Texts \cup {ReturnedNone}

\* line 112: content and len(content.strip()) > 100
IsMeaningfulMutant(o) ==
    /\ o.kind = "text"
    /\ o.raw > 0
    /\ o.stripped > MinContentLen + 1
IsMeaningful(o) ==
    /\ o.kind = "text"
    /\ o.raw > 0
    /\ o.stripped > MinContentLen

\* line 114: _clean_extracted_content(content), known by its length
clean_extracted_content(t) == [kind |-> "text", len |-> t.cleaned]

\* the values extract_full_content hands back, and "not returned yet"
NoContent == [kind |-> "none", len |-> 0]
Pending == [kind |-> "pending"]

\* calls is the call log of the strategies (their names, in call order) and
\* first is what the very first call gave back.
EfcInit == [pc |-> "loop", method |-> 1, attempt |-> 0, calls |-> <<>>,
            first |-> Pending, sleeps |-> <<>>, result |-> Pending]

EfcIdle == [pc |-> "idle", method |-> 1, attempt |-> 0, calls |-> <<>>,
            first |-> Pending, sleeps |-> <<>>, result |-> Pending]

\* lines 108-109: the two nested for loops advance (method, attempt)
EfcAdvanceMutant(f) ==
    IF f.method < Len(extraction_methods)
    THEN [f EXCEPT !.method = @ + 1, !.attempt = 0]
    ELSE [f EXCEPT !.pc = "done", !.result = NoContent]
EfcAdvance(f) ==
    IF f.attempt < efc_max_retries - 1
    THEN [f EXCEPT !.attempt = @ + 1]
    ELSE IF f.method < Len(extraction_methods)
    THEN [f EXCEPT !.method = @ + 1, !.attempt = 0]
    ELSE [f EXCEPT !.pc = "done", !.result = NoContent]   \* line 125

\* One iteration of the inner loop (lines 110-121): method(url) gives o.
ExtractAttempt(o) ==
    /\ efc.pc = "loop"
    /\ o \in MethodOutcomes(extraction_methods[efc.method])
    /\ LET called == [efc EXCEPT
                        !.calls = Append(@, extraction_methods[efc.method]),
                        !.first = IF efc.calls = <<>> THEN o ELSE @]
       IN IF o.kind = "raise"
          THEN \* lines 117-121: sleep unless this was the last attempt
               efc' = EfcAdvance(
                        IF efc.attempt < efc_max_retries - 1
                        THEN [called EXCEPT !.sleeps =
                                Append(@, retry_delay * (efc.attempt + 1))]
                        ELSE called)
          ELSE IF IsMeaningful(o)
          THEN efc' = [called EXCEPT !.pc = "done",
                                     !.result = clean_extracted_content(o)]
          ELSE efc' = EfcAdvance(called)
    /\ UNCHANGED <<req, now, fa, st, scan, rel, plog, ag>>

(***************************************************************************)
(* Dates.  A datetime is a day number and a time of day in ticks; tick 0   *)
(* is midnight.  The process is taken to run with local time = UTC, so     *)
(* datetime.now() and datetime.now(pytz.UTC) read the same clock.          *)
(***************************************************************************)
\* ticks of one day other than midnight
MaxTod == 1
\* largest "Period" entered in the sidebar
MaxTimeValue == 2

DateTime(day, tod) == [day |-> day, tod |-> tod]

\* a >= b on datetimes
DateTimeGeq(a, b) == a.day > b.day \/ (a.day = b.day /\ a.tod >= b.tod)

\* main.py 694-699: cutoff_time = datetime.now() - timedelta(days=...)
DaysToSubtract(time_value, time_unit) ==
    IF time_unit = "Weeks" THEN time_value * 7 ELSE time_value

CutoffTime(clock, time_value, time_unit) ==
    DateTime(clock.day - DaysToSubtract(time_value, time_unit), clock.tod)

\* A date value found in a page's metadata: a string in one of the formats
\* below ("other" stands for every other spelling, such as "June 1, 2024"),
\* JSON null, or no "date" key at all.
DateFormats == {"%Y-%m-%d", "%Y-%m-%d %H:%M:%S", "other"}

DateValue(fmt, day, tod) == [fmt |-> fmt, day |-> day, tod |-> tod]

\* datetime.now(pytz.UTC).strftime('%Y-%m-%d')
TodayString(clock) == DateValue("%Y-%m-%d", clock.day, 0)

\* datetime.strptime(value, fmt): a datetime, ValueError when the string
\* is not in the format, TypeError when the value is not a string.
Strptime(value, fmt) ==
    IF value.fmt \in {"null", "absent"}
    THEN [status |-> "TypeError", value |-> DateTime(0, 0)]
    ELSE IF value.fmt # fmt
    THEN [status |-> "ValueError", value |-> DateTime(0, 0)]
    ELSE [status |-> "ok", value |-> DateTime(value.day, value.tod)]

\* SearchAgent.parse_date (search_agent.py 105-114)
parse_date(date_str, clock) ==
    LET first == Strptime(date_str, "%Y-%m-%d")
        second == Strptime(date_str, "%Y-%m-%d %H:%M:%S")
    IN IF first.status = "ok" THEN [status |-> "ok", value |-> first.value]
       ELSE IF first.status = "TypeError"
       THEN [status |-> "TypeError", value |-> DateTime(0, 0)]
       ELSE IF second.status = "ok"
       THEN [status |-> "ok", value |-> second.value]
       ELSE [status |-> "ok", value |-> clock]

(***************************************************************************)
(* extract_metadata (content_extractor.py 53-90)                           *)
(***************************************************************************)
\* What fetching and extracting the page of a link gives:
\*   "raise"        fetch_url or extract raises           (lines 86-88)
\*   "no_download"  fetch_url returns nothing             (line 57, 90)
\*   "no_metadata"  extract returns nothing               (line 68, 90)
\*   "bad_json"     the extracted metadata is not JSON    (lines 78-84)
\*   "json"         metadata with the date value `date`
NoDate == DateValue("absent", 0, 0)

MetaPage(kind, date) == [kind |-> kind, date |-> date]

NoMetadata == [kind |-> "none", url |-> "", date |-> NoDate]

\* cutoff_time is a parameter of the function that its body never reads
extract_metadata(url, cutoff_time, page, clock) ==
    CASE page.kind \in {"raise", "no_download", "no_metadata"} -> NoMetadata
      [] page.kind = "bad_json" ->
            [kind |-> "meta", url |-> url, date |-> TodayString(clock)]
      [] page.kind = "json" ->
            \* meta_dict.get('date', <today>): the default is used only
            \* when the key is missing, a null value is handed on
            [kind |-> "meta", url |-> url,
             date |-> IF page.date.fmt = "absent" THEN TodayString(clock)
                      ELSE page.date]

(***************************************************************************)
(* find_ai_articles (content_extractor.py 317-401)                         *)
(***************************************************************************)
\* links looked at per source page
MaxLinks == 2

Urls == {"https://example.com/x", "https://example.com/y"}

SourceSites == {"https://site-a.example", "https://site-b.example"}

\* The text of an <a> element or of its title attribute, by what the
\* patterns find in it: "empty" is the empty string (or a missing title
\* attribute), "blank" white space only, "plain" words that match nothing,
\* "ai" words with a match of ai_regex, "consent" words with one of the
\* consent_indicators, "ai_consent" words with both.
Labels == {"empty", "blank", "plain", "ai", "consent", "ai_consent"}

\* str.strip()
Strip(label) == IF label = "blank" THEN "empty" ELSE label

\* One <a href> of the source page: its resolved href, its text, its title
\* attribute, and what its own page gives.
Link(href, text, title_attr, page) ==
    [href |-> href, text |-> text, title_attr |-> title_attr, page |-> page]

\* lines 357-358: the title attribute, or the link text when it is empty
LinkTitle(link) ==
    IF Strip(link.title_attr) # "empty" THEN Strip(link.title_attr)
    ELSE Strip(link.text)

\* lines 333-347, 360: ai_regex.search(title)
ai_regex_search(label) == label \in {"ai", "ai_consent"}

\* lines 218-229; no code calls it
is_consent_or_main_page(label) == label \in {"consent", "ai_consent"}

FaIdle == [pc |-> "idle", source |-> "", cutoff_time |-> DateTime(0, 0),
           n |-> 0, articles |-> <<>>, seen_urls |-> {},
           last |-> [outcome |-> "none"], error |-> FALSE, result |-> <<>>]

\* lines 319-322
FaInit(source_url, cutoff_time) ==
    [FaIdle EXCEPT !.pc = "fetch", !.source = source_url,
                   !.cutoff_time = cutoff_time]

\* lines 325-330 and 399-401: make_request_with_backoff(source_url) hands
\* back a response, hands back None, or raises.
FindFetch(fetched) ==
    /\ fa.pc = "fetch"
    /\ fetched \in {"response", "raised", None}
    /\ fa' = IF fetched = "response"
             THEN [fa EXCEPT !.pc = "links"]
             ELSE [fa EXCEPT !.pc = "done", !.error = TRUE, !.result = <<>>]
    /\ UNCHANGED <<req, efc, now, st, scan, rel, plog, ag>>

\* line 376: article_date >= cutoff_time, article_date being midnight UTC of
\* the parsed day and cutoff_time the instant main computed
IsFresh(article_date, cutoff_time) == DateTimeGeq(article_date, cutoff_time)

\* The body of the loop of line 351 for one link: what becomes of it, and
\* the frame after it.
LinkOutcome(f, link, clock) ==
    LET metadata == extract_metadata(link.href, f.cutoff_time, link.page, clock)
        parsed == Strptime(metadata.date, "%Y-%m-%d")
    IN IF ~ai_regex_search(LinkTitle(link)) THEN "no_match"
       ELSE IF metadata.kind = "none" THEN "no_metadata"
       ELSE IF parsed.status = "ValueError" THEN "ValueError"    \* 388-390
       ELSE IF parsed.status = "TypeError" THEN "TypeError"      \* 392-394
       ELSE IF ~IsFresh(parsed.value, f.cutoff_time) THEN "stale"
       ELSE IF metadata.url \in f.seen_urls THEN "duplicate"
       ELSE "added"

FindLink(link) ==
    /\ fa.pc = "links"
    /\ fa.n < MaxLinks
    /\ LET metadata == extract_metadata(link.href, fa.cutoff_time,
                                        link.page, now)
           outcome == LinkOutcome(fa, link, now)
           seen == [fa EXCEPT !.n = @ + 1,
                              !.last = [outcome |-> outcome, link |-> link,
                                        metadata |-> metadata]]
       IN fa' = IF outcome = "added"
                THEN [seen EXCEPT
                        !.articles = Append(@, [url |-> link.href,
                                                date |-> metadata.date,
                                                source |-> fa.source]),
                        !.seen_urls = @ \cup {link.href}]
                ELSE seen
    /\ UNCHANGED <<req, efc, now, st, scan, rel, plog, ag>>

\* lines 396-397: the page has no further link
FindReturn ==
    /\ fa.pc = "links"
    /\ fa' = [fa EXCEPT !.pc = "done", !.result = fa.articles]
    /\ UNCHANGED <<req, efc, now, st, scan, rel, plog, ag>>

\* the date values and pages a link is tried with, around a cutoff day
DateValuesAround(day) ==
    {DateValue(f, d, 0) : f \in {"%Y-%m-%d", "other"},
                          d \in {day - 1, day, day + 1}}
    \cup {DateValue("%Y-%m-%d %H:%M:%S", day, t) : t \in 0..MaxTod}
    \cup {NoDate, DateValue("null", 0, 0)}

MetaPagesAround(day) ==
    {MetaPage(k, NoDate) : k \in {"raise", "no_download", "no_metadata",
                                  "bad_json"}}
    \cup {MetaPage("json", d) : d \in DateValuesAround(day)}

\* the text and the title attribute of the links a page is tried with
LinkLabels ==
    {<<x, t>> \in Labels \X Labels :
        /\ x \in {"plain", "ai", "ai_consent"}
        /\ t \in {"empty", "blank", "plain", "ai"}}

LinksAround(day) ==
    {Link(h, l[1], l[2], p) :
        h \in Urls, l \in LinkLabels, p \in MetaPagesAround(day)}

(***************************************************************************)
(* summarize_article (ai_analyzer.py 167-364, the definition in force)     *)
(***************************************************************************)
\* line 169: content shorter than this is not summarized
min_summarize_len == 100

\* What the two OpenAI calls (lines 222, 293) do: "ok" a usable summary,
\* "invalid" an answer without one, "error" any exception, "quota" the
\* quota-exceeded exception.  alg tells whether the first sentences of the
\* content make an extractive summary of more than 20 characters (335).
ApiOutcomes == {"ok", "invalid", "error", "quota"}

NoAnalysis == [kind |-> "none", via |-> ""]

\* Every exception of a method is caught and logged (270, 318, 350); the
\* function falls through to the next method and never raises.
summarize_article(content, api1, api2, alg) ==
    IF content.len = 0 \/ content.len < min_summarize_len
    THEN NoAnalysis                                         \* 169-171
    ELSE IF api1 = "ok"
    THEN [kind |-> "analysis", via |-> "openai_comprehensive"]
    ELSE IF api2 = "ok"
    THEN [kind |-> "analysis", via |-> "openai_focused"]
    ELSE IF alg
    THEN [kind |-> "analysis", via |-> "algorithmic"]
    ELSE [kind |-> "analysis", via |-> "fallback"]          \* 353-364

(***************************************************************************)
(* main.py: the fetch loop of main (644-729, 916-919) and process_batch    *)
(* (162-275)                                                               *)
(***************************************************************************)
\* line 706: batch_size = 5
batch_size == 5
\* longest source list loaded
MaxSources == 6
\* fetch runs started in one session
MaxRuns == 2
\* longest source list of the runs checked for termination
MaxFairSources == 2

Midnight == DateTime(0, 0)

\* main.py 27-51: the session state before the first run
SessionInit ==
    [articles |-> <<>>, processed_urls |-> {}, is_fetching |-> FALSE,
     progress_bar |-> FALSE, processed_source_count |-> 0,
     outcome |-> "none", failed_in |-> "", runs |-> 0]

\* idx counts the sources process_batch has taken up; the remaining fields
\* after cand_idx are a log of the run: the candidates yielded and looked
\* at, the URLs appended, whether a call failed and an article was accepted
\* after that, and what happened around a quota failure.
ScanIdle ==
    [pc |-> "idle", cutoff_time |-> Midnight, total_sources |-> 0,
     idx |-> 0, source |-> "", batch_articles |-> <<>>, seen_urls |-> {},
     ai_articles |-> <<>>, cand_idx |-> 1,
     yielded |-> 0, visited |-> 0, accepted |-> <<>>,
     failed |-> FALSE, accepted_after_failure |-> FALSE,
     quota |-> FALSE, worked_after_quota |-> FALSE]

\* The log of a run: the URL of the candidate last looked at and the calls
\* made for it in their order, the URLs extract_full_content was called
\* with and called with again, the URLs whose save_article raised, the
\* sources the loop of process_batch took up, the sources find_ai_articles
\* was called with and the number of those calls.
LogIdle ==
    [url |-> "", calls |-> <<>>, extracted |-> {}, reextracted |-> {},
     save_raised |-> {}, taken |-> {}, scanned |-> {}, scan_calls |-> 0]

\* What a call made by process_batch for one candidate does.
\*   content: extract_full_content(url) returns None or cleaned text;
\*            "raise" is an exception escaping it.
\*   sum:     summarize_article(content); exc is an exception escaping it
\*            ("quota": one whose message is the quota-exceeded message).
\*   save:    db.save_article(article_data) returns or raises.
ContentResults ==
    {NoContent, [kind |-> "raise", len |-> 0]}
    \cup {clean_extracted_content(t) : t \in {x \in Texts : IsMeaningful(x)}}

SummarizeCalls ==
    [exc : {"none", "error", "quota"}, api1 : ApiOutcomes,
     api2 : ApiOutcomes, alg : BOOLEAN]

\* lines 240-242
SummaryFailed == [kind |-> "analysis", via |-> "Summary generation failed"]

\* The handler that takes an exception raised at a stage of process_batch:
\*   "summarize" the try of 238-242, "save" the try of 258-261, every other
\*   stage of a candidate the try of 224/265-267, the rest of a source the
\*   try of 167/271-273.  "propagate" would leave process_batch.
HandlerOfMutant(stage) ==
    IF stage \in {"extract", "analysis"} THEN "propagate" ELSE "candidate"
HandlerOfSaveMutant(stage) ==
    CASE stage = "summarize" -> "summary"
      [] stage = "save" -> "propagate"
      [] stage \in {"extract", "analysis"} -> "candidate"
      [] OTHER -> "source"
HandlerOf(stage) ==
    CASE stage = "summarize" -> "summary"
      [] stage = "save" -> "save"
      [] stage \in {"extract", "analysis"} -> "candidate"
      [] OTHER -> "source"

\* line 225: if article['url'] in seen_urls
AlreadySeenMutant(url, seen_urls) == FALSE
AlreadySeen(url, seen_urls) == url \in seen_urls

\* main.py 916-919: the except clause of the fetch run
RunFailedMutant(session, where) ==
    [session EXCEPT !.outcome = "error", !.failed_in = where]
RunFailed(session, where) ==
    [session EXCEPT !.is_fetching = FALSE, !.outcome = "error",
                    !.failed_in = where]

\* main.py 644-709: the fetch button starts a run
StartRun(time_value, time_unit, total_sources) ==
    /\ scan.pc = "idle"
    /\ st.runs < MaxRuns
    /\ IF st.progress_bar
       THEN \* line 645 sets is_fetching; line 651, del
            \* st.sessionstate.progress_bar, raises AttributeError, taken
            \* by the except clause of line 916
            /\ st' = RunFailed([st EXCEPT !.runs = @ + 1,
                                          !.is_fetching = TRUE], "setup")
            /\ UNCHANGED scan
       ELSE /\ st' = [st EXCEPT !.runs = @ + 1, !.is_fetching = TRUE,
                                !.progress_bar = TRUE,
                                !.processed_source_count = 0,
                                !.articles = <<>>, !.outcome = "running",
                                !.failed_in = ""]
            /\ scan' = [ScanIdle EXCEPT
                          !.pc = "sources",
                          !.total_sources = total_sources,
                          !.cutoff_time =
                              CutoffTime(now, time_value, time_unit)]
    /\ plog' = LogIdle
    /\ UNCHANGED <<req, efc, now, fa, rel, ag>>

\* process_batch 166-205: the next source of the batch is taken up
NextSource(source) ==
    /\ scan.pc = "sources"
    /\ scan.idx < scan.total_sources
    /\ ~(scan.idx > 0 /\ scan.idx % batch_size = 0 /\ scan.batch_articles # <<>>)
    /\ st' = [st EXCEPT !.processed_source_count = @ + 1]
    /\ IF source \in st.processed_urls
       THEN \* lines 196-197
            /\ scan' = [scan EXCEPT !.idx = @ + 1]
            /\ plog' = [plog EXCEPT !.taken = @ \cup {source}]
            /\ UNCHANGED fa
       ELSE /\ scan' = [scan EXCEPT !.idx = @ + 1, !.source = source,
                                    !.pc = "discover",
                                    !.worked_after_quota = @ \/ scan.quota]
            /\ fa' = FaInit(source, scan.cutoff_time)
            /\ plog' = [plog EXCEPT !.taken = @ \cup {source},
                                    !.scanned = @ \cup {source},
                                    !.scan_calls = @ + 1]
    /\ UNCHANGED <<req, efc, now, rel, ag>>

\* lines 205-211: find_ai_articles has returned
TakeCandidates ==
    /\ scan.pc = "discover"
    /\ fa.pc = "done"
    /\ scan' = [scan EXCEPT !.pc = "candidates", !.ai_articles = fa.result,
                            !.cand_idx = 1,
                            !.yielded = @ + Len(fa.result),
                            !.failed = @ \/ fa.error]
    /\ fa' = FaIdle
    /\ UNCHANGED <<req, efc, now, st, rel, plog, ag>>

\* line 236: if content
Summarized(content) == content.kind = "text" /\ content.len > 0

\* lines 238-242
AnalysisOf(content, sum) ==
    IF sum.exc # "none" THEN SummaryFailed
    ELSE summarize_article(content, sum.api1, sum.api2, sum.alg)

\* the call of lines 235-252 whose exception ends the work on a candidate
FailedStage(content, sum) ==
    IF content.kind = "raise" THEN "extract"
    ELSE IF ~Summarized(content) THEN "none"
    ELSE IF sum.exc # "none" /\ HandlerOf("summarize") # "summary"
    THEN "summarize"
    ELSE IF AnalysisOf(content, sum).kind = "none" THEN "analysis"
    ELSE "none"

\* lines 225-255: the candidate gets as far as batch_articles.append
Appended(url, content, sum) ==
    /\ ~AlreadySeen(url, scan.seen_urls)
    /\ Summarized(content)
    /\ FailedStage(content, sum) = "none"

LogCandidate(content, sum, save) ==
    LET url == scan.ai_articles[scan.cand_idx].url
        seen == AlreadySeen(url, scan.seen_urls)
        appended == Appended(url, content, sum)
        calls == IF seen THEN <<>>
                 ELSE <<"extract_full_content">>
                      \o (IF Summarized(content)
                          THEN <<"summarize_article">> ELSE <<>>)
                      \o (IF appended
                          THEN <<"append", "save_article">> ELSE <<>>)
    IN plog' = [plog EXCEPT
                !.url = url, !.calls = calls,
                !.extracted =
                    IF seen THEN plog.extracted
                    ELSE plog.extracted \cup {url},
                !.reextracted =
                    IF ~seen /\ url \in plog.extracted
                    THEN plog.reextracted \cup {url}
                    ELSE plog.reextracted,
                !.save_raised =
                    IF appended /\ save = "raise"
                    THEN plog.save_raised \cup {url}
                    ELSE plog.save_raised]

\* process_batch 223-267: one iteration of the loop over ai_articles
ProcessCandidate(content, sum, save) ==
    /\ scan.pc = "candidates"
    /\ scan.cand_idx <= Len(scan.ai_articles)
    /\ LET article == scan.ai_articles[scan.cand_idx]
           next == [scan EXCEPT !.cand_idx = @ + 1, !.visited = @ + 1]
           tried == [next EXCEPT !.worked_after_quota = @ \/ scan.quota]
           summarized == Summarized(content)
           analysis == AnalysisOf(content, sum)
           quota_now ==
               /\ summarized
               /\ \/ sum.exc = "quota"
                  \/ /\ sum.exc = "none"
                     /\ content.len >= min_summarize_len
                     /\ \/ sum.api1 = "quota"
                        \/ sum.api1 # "ok" /\ sum.api2 = "quota"
           failing ==
               \/ content.kind = "raise"
               \/ summarized /\ (sum.exc # "none" \/ analysis.kind = "none")
           after == [tried EXCEPT !.quota = @ \/ quota_now,
                                  !.failed = @ \/ failing]
           stage == FailedStage(content, sum)
           \* lines 254-255
           appended == [after EXCEPT
                    !.batch_articles =
                        Append(@, [url |-> article.url,
                                   date |-> article.date,
                                   source |-> scan.source,
                                   summary |-> analysis.via]),
                    !.seen_urls = @ \cup {article.url},
                    !.accepted = Append(@, article.url),
                    !.failed = @ \/ save = "raise",
                    !.accepted_after_failure = @ \/ scan.failed]
       IN IF AlreadySeen(article.url, scan.seen_urls)
          THEN scan' = next /\ UNCHANGED st                  \* 225-226
          ELSE IF stage # "none" /\ HandlerOf(stage) = "propagate"
          THEN \* the exception leaves process_batch and main's fetch loop
               /\ scan' = [after EXCEPT !.pc = "idle"]
               /\ st' = RunFailed(st, "process_batch")
          ELSE IF stage # "none" \/ ~summarized
          THEN \* no content (247), or the handler of 265-267: next one
               scan' = after /\ UNCHANGED st
          ELSE IF save = "raise" /\ HandlerOf("save") = "propagate"
          THEN /\ scan' = [appended EXCEPT !.pc = "idle"]
               /\ st' = RunFailed(st, "process_batch")
          ELSE \* lines 257-263; a failing save is only logged
               scan' = appended /\ UNCHANGED st
    /\ save \in {"ok", "raise"}
    /\ LogCandidate(content, sum, save)
    /\ UNCHANGED <<req, efc, now, fa, rel, ag>>

\* line 269: the source is done
EndSource ==
    /\ scan.pc = "candidates"
    /\ scan.cand_idx > Len(scan.ai_articles)
    /\ st' = [st EXCEPT !.processed_urls = @ \cup {scan.source}]
    /\ scan' = [scan EXCEPT !.pc = "sources", !.ai_articles = <<>>,
                            !.cand_idx = 1]
    /\ UNCHANGED <<req, efc, now, fa, rel, plog, ag>>

\* line 275 and main 717-722: process_batch returns at the end of a batch
\* and main extends the session's article list
EndBatch ==
    /\ scan.pc = "sources"
    /\ scan.batch_articles # <<>>
    /\ scan.idx = scan.total_sources \/ scan.idx % batch_size = 0
    /\ st' = [st EXCEPT !.articles = @ \o scan.batch_articles]
    /\ scan' = [scan EXCEPT !.batch_articles = <<>>]
    /\ UNCHANGED <<req, efc, now, fa, rel, plog, ag>>

\* main 724-729: every batch is done
FinishRun ==
    /\ scan.pc = "sources"
    /\ scan.idx = scan.total_sources
    /\ scan.batch_articles = <<>>
    /\ st' = [st EXCEPT !.is_fetching = FALSE, !.outcome = "completed"]
    /\ scan' = [scan EXCEPT !.pc = "idle"]
    /\ UNCHANGED <<req, efc, now, fa, rel, plog, ag>>

\* the links and the calls a scan is tried with
ScanLinks(day) ==
    {Link(h, "ai", "empty", MetaPage("json", DateValue("%Y-%m-%d", d, 0))) :
        h \in Urls, d \in {day - 1, day + 1}}

ScanContents ==
    {NoContent, [kind |-> "raise", len |-> 0],
     [kind |-> "text", len |-> MinContentLen - 1],
     [kind |-> "text", len |-> MinContentLen + 1]}

ScanSummarizeCalls ==
    {c \in SummarizeCalls :
        /\ c.alg
        /\ c.api1 = c.api2
        /\ c.api1 \in {"ok", "quota"}
        /\ c.exc # "none" => c.api1 = "ok"}

(***************************************************************************)
(* utils/evaluation_tools.py: validate_ai_relevance                        *)
(***************************************************************************)
Min(a, b) == IF a <= b THEN a ELSE b
Max(a, b) == IF a >= b THEN a ELSE b

RECURSIVE SumSeq(_)
SumSeq(s) == IF s = <<>> THEN 0 ELSE Head(s) + SumSeq(Tail(s))

\* most occurrences of one term written into the content of an article
MaxOcc == 4

\* lines 66-138: four of the sixty entries of ai_terms, in the order of the
\* dict; 'gpt' is a substring of 'chatgpt' as 'neural net' is one of
\* 'neural network', 'algorithm' of 'ai algorithm', and so on.
ai_terms ==
    << [term |-> "artificial intelligence", weight |-> 10],
       [term |-> "deep learning", weight |-> 9],
       [term |-> "gpt", weight |-> 8],
       [term |-> "chatgpt", weight |-> 8] >>

Terms == {ai_terms[i].term : i \in 1..Len(ai_terms)}

\* lines 188-195: two of the six entries of exclusion_patterns
exclusion_patterns == << "american idol", "artificial insemination" >>

Patterns == Range(exclusion_patterns)

\* A text is what was written into it, separated by blanks: so many times
\* each lexicon term, the exclusion phrases, other words; cased says that
\* it is written with capital letters.
NoTerms == [t \in Terms |-> 0]

EmptyText ==
    [written |-> NoTerms, phrases |-> {}, other |-> FALSE, cased |-> FALSE]

\* not text: the empty string is false
IsEmpty(text) ==
    /\ \A t \in Terms : text.written[t] = 0
    /\ text.phrases = {}
    /\ ~text.other

\* str.lower()
Lower(text) == [text EXCEPT !.cased = FALSE]

\* line 155: text.count(term).  A written 'chatgpt' is an occurrence of
\* 'gpt' too; a lower-case term is not found in words written with capitals.
Count(text, t) ==
    IF text.cased THEN 0
    ELSE text.written[t]
         + (IF t = "gpt" THEN text.written["chatgpt"] ELSE 0)

\* lines 146, 153: term in text
Contains(text, t) == Count(text, t) > 0

\* line 198: pattern in text
HasPattern(text, p) == ~text.cased /\ p \in text.phrases

title_weight == 2
occurrence_cap == 3
max_possible_score == 150
threshold == 25
exclusion_penalty == 30
top_matched == 5

\* line 163: int((score / max_possible_score) * 100) in the double
\* arithmetic of Python.  For the scores of this lexicon (0..175) the
\* product is below the exact quotient, and so truncated to one less, at
\* 87 (0.58 * 100 = 57.99999999999999), 171 and 174.
TruncatedLow == {87, 171, 174}
FloatPercent(score) ==
    (score * 100) \div max_possible_score
        - (IF score \in TruncatedLow THEN 1 ELSE 0)

\* line 199
PenalizeMutant(score) == score - exclusion_penalty
Penalize(score) == Max(0, score - exclusion_penalty)

\* lines 197-201: the loop over exclusion_patterns from entry i on;
\* v holds normalized_score, reason and is_relevant
RECURSIVE ApplyExclusions(_, _, _)
ApplyExclusions(v, text, i) ==
    IF i > Len(exclusion_patterns) THEN v
    ELSE IF HasPattern(Lower(text), exclusion_patterns[i])
    THEN LET score == Penalize(v.score)
         IN ApplyExclusions(
                [score |-> score,
                 reason |-> [kind |-> "non_ai_use", terms |-> <<>>,
                             pattern |-> exclusion_patterns[i]],
                 is_relevant |-> score >= threshold],
                text, i + 1)
    ELSE ApplyExclusions(v, text, i + 1)

Truncate(list, n) == SubSeq(list, 1, Min(n, Len(list)))

\* lines 140-159: the title loop and the text loop over ai_terms
TitleHits(title) ==
    LET Hit(e) == Contains(title, e.term) IN SelectSeq(ai_terms, Hit)

TextHits(text) ==
    LET Hit(e) == Contains(text, e.term) IN SelectSeq(ai_terms, Hit)

RawScore(title, text) ==
    LET th == TitleHits(title)
        xh == TextHits(text)
    IN SumSeq([i \in 1..Len(th) |-> th[i].weight * title_weight])
       + SumSeq([i \in 1..Len(xh) |->
                    xh[i].weight * Min(Count(text, xh[i].term), occurrence_cap)])

MatchedTerms(title, text) ==
    LET th == TitleHits(title)
        xh == TextHits(text)
    IN [i \in 1..Len(th) |->
           [term |-> th[i].term, where |-> "title", occurrences |-> 0]]
       \o [i \in 1..Len(xh) |->
           [term |-> xh[i].term, where |-> "text",
            occurrences |-> Count(text, xh[i].term)]]

\* lines 42-209
validate_ai_relevance(article_data) ==
    LET title == Lower(article_data.title)
        content == Lower(article_data.content)
        summary == Lower(article_data.summary)
    IN IF IsEmpty(content) /\ IsEmpty(summary)
       THEN [is_relevant |-> FALSE, confidence |-> 0,
             reason |-> [kind |-> "no_content", terms |-> <<>>,
                         pattern |-> ""]]
       ELSE LET text_to_analyze == IF ~IsEmpty(content) THEN content
                                   ELSE summary
                matched_terms == MatchedTerms(title, text_to_analyze)
                normalized_score ==
                    Min(100, FloatPercent(RawScore(title, text_to_analyze)))
                is_relevant == normalized_score >= threshold
                confidence_level ==
                    IF ~is_relevant THEN "very low"
                    ELSE IF normalized_score >= 80 THEN "high"
                    ELSE IF normalized_score >= 60 THEN "medium"
                    ELSE "low"
                reason ==
                    IF ~is_relevant
                    THEN IF matched_terms # <<>>
                         THEN [kind |-> "insufficient",
                               terms |-> Truncate(matched_terms, 2),
                               pattern |-> ""]
                         ELSE [kind |-> "no_terms", terms |-> <<>>,
                               pattern |-> ""]
                    ELSE IF normalized_score >= 80
                    THEN [kind |-> "highly",
                          terms |-> Truncate(matched_terms, 5),
                          pattern |-> ""]
                    ELSE IF normalized_score >= 60
                    THEN [kind |-> "moderately",
                          terms |-> Truncate(matched_terms, 3),
                          pattern |-> ""]
                    ELSE [kind |-> "somewhat",
                          terms |-> Truncate(matched_terms, 2),
                          pattern |-> ""]
                v == ApplyExclusions(
                         [score |-> normalized_score, reason |-> reason,
                          is_relevant |-> is_relevant],
                         text_to_analyze, 1)
            IN [is_relevant |-> v.is_relevant,
                confidence |-> v.score,
                confidence_level |-> confidence_level,
                reason |-> v.reason,
                matched_terms |-> Truncate(matched_terms, top_matched)]

\* The articles validate_ai_relevance is tried with: a call on an article,
\* then calls on the article with one more term occurrence or one more
\* exclusion phrase written into its content.  added is what the last
\* addition wrote, prev the confidence the article had before it.
WrittenOnce(terms) == [t \in Terms |-> IF t \in terms THEN 1 ELSE 0]

Titles ==
    {EmptyText,
     [EmptyText EXCEPT !.written = WrittenOnce({"artificial intelligence"}),
                       !.cased = TRUE],
     [EmptyText EXCEPT !.written = WrittenOnce({"chatgpt"})],
     [EmptyText EXCEPT !.written = WrittenOnce(Terms)]}

Summaries ==
    {EmptyText,
     [EmptyText EXCEPT
         !.written = [t \in Terms |->
                         IF t \in {"artificial intelligence", "deep learning"}
                         THEN occurrence_cap ELSE 0],
         !.cased = TRUE],
     [EmptyText EXCEPT !.phrases = Patterns, !.other = TRUE]}

Contents == {EmptyText, [EmptyText EXCEPT !.other = TRUE, !.cased = TRUE]}

NoVerdict ==
    [is_relevant |-> FALSE, confidence |-> 0,
     reason |-> [kind |-> "pending", terms |-> <<>>, pattern |-> ""]]

RelIdle ==
    [pc |-> "idle", title |-> EmptyText, content |-> EmptyText,
     summary |-> EmptyText, verdict |-> NoVerdict, op |-> "none",
     added |-> "", prev |-> 0]

RelInit(title, content, summary) ==
    [RelIdle EXCEPT !.pc = "input", !.title = title, !.content = content,
                    !.summary = summary]

ArticleData(r) ==
    [title |-> r.title, content |-> r.content, summary |-> r.summary]

Validate ==
    /\ rel.pc = "input"
    /\ rel' = [rel EXCEPT !.pc = "validated", !.op = "validate",
                          !.verdict = validate_ai_relevance(ArticleData(rel))]
    /\ UNCHANGED <<req, efc, now, fa, st, scan, plog, ag>>

Revalidate(content, op, added) ==
    LET r == [rel EXCEPT !.content = content]
    IN rel' = [r EXCEPT !.op = op, !.added = added,
                        !.prev = rel.verdict.confidence,
                        !.verdict = validate_ai_relevance(ArticleData(r))]

AddTermOccurrence(t) ==
    /\ rel.pc = "validated"
    /\ rel.content.written[t] < MaxOcc
    /\ Revalidate([rel.content EXCEPT !.written[t] = @ + 1], "add_term", t)
    /\ UNCHANGED <<req, efc, now, fa, st, scan, plog, ag>>

AddExclusionPhrase(p) ==
    /\ rel.pc = "validated"
    /\ Revalidate([rel.content EXCEPT !.phrases = @ \cup {p}],
                  "add_phrase", p)
    /\ UNCHANGED <<req, efc, now, fa, st, scan, plog, ag>>

(***************************************************************************)
(* agents/search_agent.py: SearchAgent.search, _validate_articles_batch    *)
(***************************************************************************)
\* articles handed to one _validate_articles_batch call
MaxArticles == 4

\* line 259: the default of the batch_size parameter
agent_batch_size == 5

\* lines 1-12, 441-458: the names bound at module level in search_agent.py
ModuleNames ==
    {"os", "datetime", "timedelta", "re", "OpenAI", "Document",
     "BeautifulSoupWebReader", "BeautifulSoup", "requests", "SerpAPIClient",
     "json", "SearchAgent", "extract_metadata", "extract_full_content",
     "summarize_article", "validate_ai_relevance"}

\* An article handed to _validate_single_article: a dict with a 'url' key
\* or one without it (article['url'] raises KeyError, line 295).
ArticleKinds == {"with_url", "without_url"}

RECURSIVE SeqsUpTo(_, _)
SeqsUpTo(S, n) ==
    IF n = 0 THEN {<<>>}
    ELSE LET shorter == SeqsUpTo(S, n - 1)
         IN shorter \cup {Append(s, x) : s \in {t \in shorter : Len(t) = n - 1},
                                         x \in S}

\* lines 292-337: _validate_single_article with the module's own
\* extract_full_content, summarize_article and validate_ai_relevance
\* (441-458), which return a placeholder text, a placeholder summary and
\* is_relevant True; every exception ends in `return None` (335-337).
validate_single_article(article) ==
    IF article = "without_url" THEN "None" ELSE "article"

\* lines 282-284: the append to validated_articles sits in
\* `with article_lock:`
AppendUnderLockMutant == FALSE
AppendUnderLock == TRUE

\* The frame of one call of the agent.  task[i] is the state of the future
\* of articles[i]; lock is the holder of article_lock; mutations logs every
\* change of a list shared with the pool: the thread that made it and
\* whether article_lock was held by that thread.
AgIdle ==
    [pc |-> "idle", entry |-> "", articles |-> <<>>, batch_size |-> 0,
     start |-> 1, task |-> <<>>, taken |-> 0, lock |-> "free",
     validated_articles |-> <<>>, mutations |-> {},
     result |-> [kind |-> "pending", list |-> <<>>, error |-> ""]]

AgCall(entry, articles, size) ==
    [AgIdle EXCEPT !.pc = "called", !.entry = entry, !.articles = articles,
                   !.batch_size = size,
                   !.task = [i \in 1..Len(articles) |-> "none"]]

\* lines 116-149 and 253-257: search gets its keywords
\* (extract_keywords_from_criteria returns a default list when the model
\* call fails, 74-82) and then looks up load_source_sites, which is no name
\* of the module: NameError, printed and re-raised by the handler of
\* 253-257, before the pool of line 160 is created.
SearchCall ==
    /\ ag.pc = "called"
    /\ ag.entry = "search"
    /\ ag' = IF "load_source_sites" \in ModuleNames
             THEN [ag EXCEPT !.pc = "pool"]
             ELSE [ag EXCEPT !.pc = "done",
                             !.result = [kind |-> "raised", list |-> <<>>,
                                         error |-> "NameError"]]
    /\ UNCHANGED <<req, efc, now, fa, st, scan, rel, plog>>

BatchOf(a) ==
    {i \in 1..Len(a.articles) : a.start <= i /\ i < a.start + a.batch_size}

\* lines 267-275: the next batch is submitted to a new pool, or (290) the
\* list is returned when no article is left
SubmitBatch ==
    /\ ag.entry = "validate_articles_batch"
    /\ ag.pc \in {"called", "next"}
    /\ ag' = IF ag.start > Len(ag.articles)
             THEN [ag EXCEPT !.pc = "done",
                             !.result = [kind |-> "list",
                                         list |-> ag.validated_articles,
                                         error |-> ""]]
             ELSE [ag EXCEPT !.pc = "collect",
                             !.task = [i \in 1..Len(ag.articles) |->
                                          IF i \in BatchOf(ag) THEN "queued"
                                          ELSE ag.task[i]]]
    /\ UNCHANGED <<req, efc, now, fa, st, scan, rel, plog>>

\* a worker thread of the pool takes a queued call
WorkerStart(i) ==
    /\ i \in DOMAIN ag.task
    /\ ag.task[i] = "queued"
    /\ ag' = [ag EXCEPT !.task[i] = "running"]
    /\ UNCHANGED <<req, efc, now, fa, st, scan, rel, plog>>

\* the worker returns from _validate_single_article: it has built a new
\* dict or None and has written to nothing it shares
WorkerFinish(i) ==
    /\ i \in DOMAIN ag.task
    /\ ag.task[i] = "running"
    /\ ag' = [ag EXCEPT
                !.task[i] = validate_single_article(ag.articles[i])]
    /\ UNCHANGED <<req, efc, now, fa, st, scan, rel, plog>>

\* lines 277-280: as_completed hands the main thread a finished future
TakeResult(i) ==
    /\ ag.pc = "collect"
    /\ i \in DOMAIN ag.task
    /\ ag.task[i] \in {"article", "None"}
    /\ ag' = IF ag.task[i] = "None"
             THEN [ag EXCEPT !.task[i] = "taken"]
             ELSE [ag EXCEPT !.pc = IF AppendUnderLock THEN "acquire"
                                    ELSE "append",
                             !.taken = i]
    /\ UNCHANGED <<req, efc, now, fa, st, scan, rel, plog>>

\* line 282: with article_lock
AcquireLock ==
    /\ ag.pc = "acquire"
    /\ ag.lock = "free"
    /\ ag' = [ag EXCEPT !.pc = "append", !.lock = "main"]
    /\ UNCHANGED <<req, efc, now, fa, st, scan, rel, plog>>

\* line 283
AppendValidated ==
    /\ ag.pc = "append"
    /\ ag' = [ag EXCEPT
                !.pc = IF ag.lock = "main" THEN "release" ELSE "collect",
                !.task[ag.taken] = "taken",
                !.validated_articles = Append(@, ag.taken),
                !.mutations = @ \cup {[list |-> "validated_articles",
                                       by |-> "main",
                                       locked |-> ag.lock = "main",
                                       running |-> \E j \in DOMAIN ag.task :
                                                      ag.task[j] = "running"]}]
    /\ UNCHANGED <<req, efc, now, fa, st, scan, rel, plog>>

\* the end of the with block of 282-284
ReleaseLock ==
    /\ ag.pc = "release"
    /\ ag' = [ag EXCEPT !.pc = "collect", !.lock = "free"]
    /\ UNCHANGED <<req, efc, now, fa, st, scan, rel, plog>>

\* the end of the with block of 270: every future of the batch is taken
\* and the pool is shut down
EndPool ==
    /\ ag.pc = "collect"
    /\ \A i \in BatchOf(ag) : ag.task[i] = "taken"
    /\ ag' = [ag EXCEPT !.pc = "next", !.start = @ + ag.batch_size]
    /\ UNCHANGED <<req, efc, now, fa, st, scan, rel, plog>>

(***************************************************************************)
(* Specifications                                                          *)
(***************************************************************************)

FetchInit ==
    /\ req \in {ReqInit(m) : m \in 0..MaxRetriesArg}
    /\ efc = EfcIdle
    /\ now = Midnight
    /\ fa = FaIdle
    /\ st = SessionInit
    /\ scan = ScanIdle
    /\ rel = RelIdle
    /\ plog = LogIdle
    /\ ag = AgIdle

FetchNext ==
    \/ \E o \in GetOutcomes : RequestAttempt(o)
    \/ RequestLoopEnd

FetchSpec == FetchInit /\ [][FetchNext]_vars

ExtractInitState ==
    /\ req = ReqIdle
    /\ efc = EfcInit
    /\ now = Midnight
    /\ fa = FaIdle
    /\ st = SessionInit
    /\ scan = ScanIdle
    /\ rel = RelIdle
    /\ plog = LogIdle
    /\ ag = AgIdle

ExtractNext == \E o \in Texts \cup {ReturnedNone, Raised} : ExtractAttempt(o)

ExtractSpec == ExtractInitState /\ [][ExtractNext]_vars

\* the loops are ordinary sequential code: a started call runs on
ExtractFairSpec == ExtractSpec /\ WF_vars(ExtractNext)

\* One call find_ai_articles(source, cutoff_time) with the cutoff main
\* computes from the sidebar's period.
DiscoverInit ==
    /\ req = ReqIdle
    /\ efc = EfcIdle
    /\ now \in {DateTime(0, t) : t \in 0..MaxTod}
    /\ \E v \in 1..MaxTimeValue, u \in {"Days", "Weeks"}, s \in SourceSites :
          fa = FaInit(s, CutoffTime(now, v, u))
    /\ st = SessionInit
    /\ scan = ScanIdle
    /\ rel = RelIdle
    /\ plog = LogIdle
    /\ ag = AgIdle

DiscoverNext ==
    \/ \E f \in {"response", "raised", None} : FindFetch(f)
    \/ \E l \in LinksAround(fa.cutoff_time.day) : FindLink(l)
    \/ FindReturn

DiscoverSpec == DiscoverInit /\ [][DiscoverNext]_vars

\* A session in which the fetch button is pressed up to MaxRuns times.
ScanInit ==
    /\ req = ReqIdle
    /\ efc = EfcIdle
    /\ now = DateTime(0, MaxTod)
    /\ fa = FaIdle
    /\ st = SessionInit
    /\ scan = ScanIdle
    /\ rel = RelIdle
    /\ plog = LogIdle
    /\ ag = AgIdle

ScanNext ==
    \/ \E n \in 0..MaxSources : StartRun(1, "Days", n)
    \/ \E s \in SourceSites : NextSource(s)
    \/ \E f \in {"response", "raised", None} :
          scan.pc = "discover" /\ FindFetch(f)
    \/ \E l \in ScanLinks(fa.cutoff_time.day) :
          scan.pc = "discover" /\ FindLink(l)
    \/ scan.pc = "discover" /\ FindReturn
    \/ TakeCandidates
    \/ \E c \in ScanContents, m \in ScanSummarizeCalls, v \in {"ok", "raise"} :
          ProcessCandidate(c, m, v)
    \/ EndSource
    \/ EndBatch
    \/ FinishRun

ScanSpec == ScanInit /\ [][ScanNext]_vars

\* A run that has started goes on: the script is one sequential thread, and
\* every call it makes returns or raises (the requests have timeouts and a
\* bounded number of retries).
ScanStep ==
    \/ \E s \in SourceSites : NextSource(s)
    \/ \E f \in {"response", "raised", None} :
          scan.pc = "discover" /\ FindFetch(f)
    \/ \E l \in ScanLinks(fa.cutoff_time.day) :
          scan.pc = "discover" /\ FindLink(l)
    \/ scan.pc = "discover" /\ FindReturn
    \/ TakeCandidates
    \/ \E c \in ScanContents, m \in ScanSummarizeCalls, v \in {"ok", "raise"} :
          ProcessCandidate(c, m, v)
    \/ EndSource
    \/ EndBatch
    \/ FinishRun

\* The runs of a session over a short source list, with that fairness.
RunFairNext ==
    \/ \E n \in 0..MaxFairSources : StartRun(1, "Days", n)
    \/ ScanStep

RunFairSpec == ScanInit /\ [][RunFairNext]_vars /\ WF_vars(ScanStep)

\* Calls of validate_ai_relevance on one article and on what it becomes
\* when terms and phrases are added to its content.
RelevanceInit ==
    /\ req = ReqIdle
    /\ efc = EfcIdle
    /\ now = Midnight
    /\ fa = FaIdle
    /\ st = SessionInit
    /\ scan = ScanIdle
    /\ rel \in {RelInit(t, c, s) : t \in Titles, c \in Contents, s \in Summaries}
    /\ plog = LogIdle
    /\ ag = AgIdle

RelevanceNext ==
    \/ Validate
    \/ \E t \in Terms : AddTermOccurrence(t)
    \/ \E p \in Patterns : AddExclusionPhrase(p)

RelevanceSpec == RelevanceInit /\ [][RelevanceNext]_vars

\* One call of SearchAgent.search, or of _validate_articles_batch with a
\* list of articles and a batch size.
AgentInit ==
    /\ req = ReqIdle
    /\ efc = EfcIdle
    /\ now = Midnight
    /\ fa = FaIdle
    /\ st = SessionInit
    /\ scan = ScanIdle
    /\ rel = RelIdle
    /\ plog = LogIdle
    /\ \/ ag = AgCall("search", <<>>, 0)
       \/ \E a \in SeqsUpTo(ArticleKinds, MaxArticles),
             size \in {agent_batch_size, MaxArticles - 1} :
             ag = AgCall("validate_articles_batch", a, size)

AgentNext ==
    \/ SearchCall
    \/ SubmitBatch
    \/ \E i \in 1..MaxArticles : WorkerStart(i)
    \/ \E i \in 1..MaxArticles : WorkerFinish(i)
    \/ \E i \in 1..MaxArticles : TakeResult(i)
    \/ AcquireLock
    \/ AppendValidated
    \/ ReleaseLock
    \/ EndPool

AgentSpec == AgentInit /\ [][AgentNext]_vars

(***************************************************************************)
(* Claims                                                                  *)
(***************************************************************************)
AllTimeouts(gets) == \A i \in 1..Len(gets) : gets[i] = "timeout"

\* C2: with the default max_retries = 3, a URL whose every GET times out is
\* tried exactly 3 times, and the call then raises instead of returning a
\* response.
C2_RetryBound ==
    (req.pc # "idle" /\ req.max_retries = 3 /\ AllTimeouts(req.gets)) =>
        /\ Len(req.gets) <= 3
        /\ (req.pc = "done" <=> Len(req.gets) = 3)
        /\ (req.pc = "done" => req.result = "raised")

C2_Witness ==
    /\ req.pc = "done"
    /\ req.max_retries = 3
    /\ req.gets = <<"timeout", "timeout", "timeout">>
    /\ req.result = "raised"

\* C3: when the server answers 404, the call fails after exactly one GET,
\* with no retry and no backoff sleep.
C3_NotFoundFailsAtOnce ==
    (/\ req.max_retries = default_max_retries
     /\ Len(req.gets) >= 1
     /\ req.gets[1] = "404") =>
        /\ req.pc = "done"
        /\ req.result = "raised"
        /\ Len(req.gets) = 1
        /\ req.sleeps = <<>>

OnlyTrafilatura(calls) ==
    \A i \in 1..Len(calls) : calls[i] = "_extract_with_trafilatura"

\* C4 as stated: if the first call of _extract_with_trafilatura returns
\* content of at least 100 characters, the other two strategies are never
\* invoked.
C4_AtLeast100Wins ==
    (efc.first.kind = "text" /\ efc.first.raw >= 100) =>
        OnlyTrafilatura(efc.calls)

\* C4 amended: if the first call of _extract_with_trafilatura returns
\* content of more than 100 characters after stripping surrounding
\* whitespace, extract_full_content returns after that single call and the
\* other two strategies are never invoked.
C4_MoreThan100Wins ==
    (efc.first.kind = "text" /\ efc.first.stripped > 100) =>
        /\ efc.calls = <<"_extract_with_trafilatura">>
        /\ efc.pc = "done"
        /\ efc.result.kind = "text"

C4_Witness ==
    /\ efc.pc = "done"
    /\ efc.first.kind = "text"
    /\ efc.first.stripped = 101
    /\ efc.calls = <<"_extract_with_trafilatura">>

\* C5: extract_full_content always terminates, and it returns None only
\* after trafilatura, newspaper and BeautifulSoup have each been invoked 3
\* times, in that order (9 invocations); never earlier.
C5_NoneOnlyAfterNineCalls ==
    /\ <>(efc.pc = "done")
    /\ [](efc.pc = "done" /\ efc.result.kind = "none" =>
            efc.calls = <<"_extract_with_trafilatura",
                          "_extract_with_trafilatura",
                          "_extract_with_trafilatura",
                          "_extract_with_newspaper",
                          "_extract_with_newspaper",
                          "_extract_with_newspaper",
                          "_extract_with_beautifulsoup",
                          "_extract_with_beautifulsoup",
                          "_extract_with_beautifulsoup">>)

C5_Witness ==
    /\ efc.pc = "done"
    /\ efc.result.kind = "none"
    /\ Len(efc.calls) = 9

\* the last link find_ai_articles looked at was a candidate (its title
\* matched the AI pattern) whose page gave metadata with a date value
LastCandidateHasDate(fmts) ==
    /\ fa.last.outcome # "none"
    /\ ai_regex_search(LinkTitle(fa.last.link))
    /\ fa.last.link.page.kind = "json"
    /\ fa.last.link.page.date.fmt \in fmts

Kept == {"added", "duplicate"}

\* C6: extract_metadata(url, cutoff_time) returns None whenever the page's
\* publish date is strictly before the cutoff's calendar date, and a record
\* whenever it is on or after the cutoff's calendar date.
C6_CutoffMonotonicity ==
    LastCandidateHasDate({"%Y-%m-%d"}) =>
        IF fa.last.link.page.date.day < fa.cutoff_time.day
        THEN fa.last.metadata.kind = "none"
        ELSE fa.last.metadata.kind = "meta"

\* C7: the date filter compares calendar dates: a candidate dated on the
\* cutoff's calendar day (or later) is kept by find_ai_articles whatever the
\* cutoff's time of day, and only candidates of an earlier day are dropped.
C7_CalendarDateFilter ==
    LastCandidateHasDate({"%Y-%m-%d"}) =>
        (fa.last.link.page.date.day >= fa.cutoff_time.day
            <=> fa.last.outcome \in Kept)

\* C8: a candidate whose date matches no known format, or is absent, is
\* treated as published now: date normalization yields the current time and
\* find_ai_articles keeps the candidate.
C8_UnparseableDateIsFresh ==
    LastCandidateHasDate({"other", "absent"}) =>
        /\ fa.last.outcome \in Kept
        /\ fa.last.link.page.date.fmt = "other" =>
              parse_date(fa.last.link.page.date, now) =
                  [status |-> "ok", value |-> now]

\* the articles of the run so far: those main has taken over from the
\* finished batches and those of the batch process_batch is working on
Accumulated == st.articles \o scan.batch_articles

UrlsOf(list) == [i \in 1..Len(list) |-> list[i].url]

\* C1: in one scan run the accumulated article list never holds two
\* entries with the same URL, however many sources or batches yield it.
C1_NoDuplicateUrl ==
    \A i, j \in 1..Len(Accumulated) :
        i # j => Accumulated[i].url # Accumulated[j].url

\* a candidate of the current source was passed over because an earlier
\* batch already delivered its URL from another source
C1_Witness ==
    /\ scan.pc = "candidates"
    /\ \E i \in 1..Len(scan.ai_articles), j \in 1..Len(st.articles) :
          /\ i < scan.cand_idx
          /\ st.articles[j].url = scan.ai_articles[i].url
          /\ st.articles[j].source # scan.ai_articles[i].source

\* C9: no exception of link discovery, content extraction, summarization
\* or persistence leaves process_batch: the run is never ended by one,
\* every article accepted stays in the result, and a run that completes
\* has taken up every source and looked at every candidate yielded.
C9_FailuresAreIsolated ==
    /\ st.failed_in # "process_batch"
    /\ st.outcome \in {"running", "completed"} =>
          UrlsOf(Accumulated) = scan.accepted
    /\ st.outcome = "completed" =>
          /\ st.processed_source_count = scan.total_sources
          /\ scan.visited = scan.yielded

C9_Witness ==
    /\ st.outcome = "completed"
    /\ scan.failed
    /\ scan.accepted_after_failure
    /\ Len(st.articles) >= 2

\* C10: when summarization fails with a quota-exceeded error, the run is
\* aborted: no further candidate or source is processed and the caller gets
\* a distinct abort signal.
C10_QuotaAbortsRun ==
    scan.quota =>
        /\ ~scan.worked_after_quota
        /\ ~st.is_fetching => st.outcome = "aborted"

\* C11: a run in which summarization failed with the quota-exceeded error
\* ends as an aborted run, and the caller then holds exactly the articles
\* that were accepted before the abort.
C11_AbortKeepsAccepted ==
    (scan.quota /\ scan.pc = "idle") =>
        /\ st.outcome = "aborted"
        /\ UrlsOf(st.articles) = scan.accepted

\* C12: writing one more occurrence of a lexicon term into the content of
\* an article never lowers the confidence validate_ai_relevance returns,
\* also when the content was empty and the summary was not; when the term
\* already occurred three times or more the confidence stays as it was.
C12_TermNeverLowers ==
    (rel.pc = "validated" /\ rel.op = "add_term") =>
        /\ rel.verdict.confidence >= rel.prev
        /\ rel.content.written[rel.added] > occurrence_cap =>
              rel.verdict.confidence = rel.prev

\* C13: writing one of the exclusion phrases into the content of an article
\* never raises the confidence validate_ai_relevance returns.
C13_PhraseNeverRaises ==
    (rel.pc = "validated" /\ rel.op = "add_phrase") =>
        rel.verdict.confidence <= rel.prev

\* the text validate_ai_relevance analyses for the article of rel
AnalysedText ==
    IF ~IsEmpty(rel.content) THEN Lower(rel.content) ELSE Lower(rel.summary)

\* C14: when the analysed text holds one of the exclusion phrases the
\* verdict is is_relevant = FALSE, whatever lexicon terms match in the
\* title or in the text.
C14_PhraseMeansIrrelevant ==
    (rel.pc = "validated"
        /\ \E p \in Patterns : HasPattern(AnalysedText, p)) =>
        ~rel.verdict.is_relevant

\* C15: the confidence of every verdict is an integer from 0 to 100, also
\* after the penalty of one or of several matching exclusion phrases.
C15_ConfidenceInRange ==
    rel.pc = "validated" => rel.verdict.confidence \in 0..100

\* both exclusion phrases matched an article that lexicon terms had given a
\* score below the two penalties
C15_Witness ==
    /\ rel.pc = "validated"
    /\ \A p \in Patterns : HasPattern(AnalysedText, p)
    /\ RawScore(Lower(rel.title), AnalysedText) > 0
    /\ rel.verdict.confidence = 0
    /\ rel.op = "add_phrase"
    /\ rel.prev > 0

\* the raw score as C19 states it
StatedRaw ==
    SumSeq([i \in 1..Len(ai_terms) |->
               (IF Contains(Lower(rel.title), ai_terms[i].term)
                THEN 2 * ai_terms[i].weight ELSE 0)
               + ai_terms[i].weight
                   * Min(Count(AnalysedText, ai_terms[i].term), 3)])

\* C19: for an article with text to analyse and no exclusion phrase in it,
\* the confidence is min(100, floor(raw * 100 / 150)), raw being the sum of
\* 2 x weight over the terms in the title and of weight x min(occurrences,
\* 3) over the terms in the analysed text.
C19_ScoreFormula ==
    (rel.pc = "validated"
        /\ ~IsEmpty(AnalysedText)
        /\ \A p \in Patterns : ~HasPattern(AnalysedText, p)) =>
        rel.verdict.confidence = Min(100, (StatedRaw * 100) \div 150)

\* C20: every verdict has a matched_terms list, of at most 5 entries, also
\* the verdict for an article with neither content nor summary.
C20_MatchedTermsAtMostFive ==
    rel.pc = "validated" =>
        /\ "matched_terms" \in DOMAIN rel.verdict
        /\ Len(rel.verdict.matched_terms) <= 5

\* C16: an article is appended only after, for its URL and in this order,
\* the date filter passed, extract_full_content returned content and the
\* relevance validator returned is_relevant = TRUE: every article of the
\* run has a date not before the cutoff, and the calls made for an appended
\* candidate hold the extraction, then the validation, then the append.
C16_AcceptedAfterValidation ==
    /\ \A i \in 1..Len(Accumulated) :
          LET parsed == Strptime(Accumulated[i].date, "%Y-%m-%d")
          IN parsed.status = "ok" /\ IsFresh(parsed.value, scan.cutoff_time)
    /\ "append" \in Range(plog.calls) =>
          \E i, j, k \in 1..Len(plog.calls) :
              /\ i < j /\ j < k
              /\ plog.calls[i] = "extract_full_content"
              /\ plog.calls[j] = "validate_ai_relevance"
              /\ plog.calls[k] = "append"

\* C17: within one run extract_full_content is called at most once for a
\* URL, also when several sources yield the URL and when the first
\* extraction of it failed.
C17_ExtractedOncePerUrl == plog.reextracted = {}

\* C18: when db.save_article raises for an accepted article, the article
\* stays in the list process_batch returns and its URL in seen_urls, and
\* the loop goes on: the run is not ended by it and, once completed, has
\* looked at every candidate yielded.
C18_SaveFailureKeepsArticle ==
    /\ \A u \in plog.save_raised :
          /\ u \in Range(UrlsOf(Accumulated))
          /\ u \in scan.seen_urls
    /\ plog.save_raised # {} =>
          /\ st.outcome \in {"running", "completed"}
          /\ st.outcome = "completed" => scan.visited = scan.yielded

\* the save of one article raised and a candidate after it was accepted
C18_Witness ==
    /\ st.outcome = "completed"
    /\ \E i, j \in 1..Len(scan.accepted) :
          /\ i < j
          /\ scan.accepted[i] \in plog.save_raised
          /\ scan.accepted[j] \notin plog.save_raised
    /\ Range(scan.accepted) \subseteq Range(UrlsOf(st.articles))

\* C21: find_ai_articles matches the AI pattern against the link text
\* together with the title attribute: a link is treated as a candidate
\* exactly when the pattern matches one of the two, also when the text
\* matches and a non-empty title attribute does not, or the other way round.
C21_AnchorOrTitleMatches ==
    fa.last.outcome # "none" =>
        (fa.last.outcome # "no_match"
            <=> \/ ai_regex_search(Strip(fa.last.link.text))
                \/ ai_regex_search(Strip(fa.last.link.title_attr)))

\* C22: find_ai_articles yields no candidate whose link text or title holds
\* one of the consent phrases, also when it matches the AI pattern.
C22_NoConsentCandidate ==
    fa.last.outcome = "added" =>
        /\ ~is_consent_or_main_page(Strip(fa.last.link.text))
        /\ ~is_consent_or_main_page(Strip(fa.last.link.title_attr))

\* C23: extract_metadata returns None on every failure of the download or
\* of the parsing of a candidate's page, also when the extracted metadata
\* is not valid JSON, and a record only for a page that gave metadata.
C23_MetadataNoneOnFailure ==
    (fa.last.outcome \notin {"none", "no_match"}) =>
        (fa.last.metadata.kind = "none" <=> fa.last.link.page.kind # "json")


\* C24: no worker thread of a pool changes a shared list: every change of
\* validated_articles (and of all_articles) is made by the collecting
\* thread while it holds article_lock, and article_lock is never held by
\* a worker.
C24_MutationsUnderLock ==
    /\ ag.lock \in {"free", "main"}
    /\ \A m \in ag.mutations : m.by = "main" /\ m.locked
    /\ Len(ag.validated_articles) > 0 => ag.mutations # {}

\* Two results were appended in the reverse of the submission order, one of
\* them while a worker of the pool was still running.
C24_Witness ==
    /\ Len(ag.validated_articles) >= 2
    /\ ag.validated_articles[1] > ag.validated_articles[2]
    /\ \E m \in ag.mutations : m.running /\ m.locked

\* C30: a finished call of search has returned a list, and no two of its
\* articles have the same URL.
C30_SearchReturnsDistinctUrls ==
    (ag.entry = "search" /\ ag.pc = "done") =>
        /\ ag.result.kind = "list"
        /\ \A i, j \in DOMAIN ag.result.list :
              ag.result.list[i] = ag.result.list[j] => i = j


\* C25: a candidate for which extract_full_content returned non-empty
\* content (so that summarize_article was called for it) is appended to
\* the batch result, whatever summarize_article did.
C25_ContentMeansAppended ==
    (\E i \in DOMAIN plog.calls : plog.calls[i] = "summarize_article") =>
        (\E i \in DOMAIN plog.calls : plog.calls[i] = "append")


\* C26: every fetch run that has ended got past the reset of the progress
\* placeholders into the scan, and find_ai_articles was called exactly once
\* for each source the run was configured with.
C26_RunScansEverySource ==
    (st.runs >= 1 /\ ~st.is_fetching) =>
        /\ st.failed_in # "setup"
        /\ plog.scanned = plog.taken
        /\ plog.scan_calls = Cardinality(plog.scanned)


\* C27: once a fetch run has set is_fetching, the flag is reset to False,
\* by the end of the run or by the except clause, and it is False whenever
\* no run is under way.
C27_FetchingFlagReset ==
    /\ [](scan.pc = "idle" => ~st.is_fetching)
    /\ (st.is_fetching ~> ~st.is_fetching)

\* A second run has been ended by an exception after the first one had
\* completed, and the flag is down.
C27_Witness ==
    /\ st.runs = MaxRuns
    /\ st.outcome = "error"
    /\ ~st.is_fetching


\* C28: the confidence_level of a verdict agrees with its confidence and
\* its is_relevant: "high" iff the confidence is at least 80, "medium" iff
\* it is from 60 to 79, "low" iff it is from 25 to 59, "very low" iff the
\* article is not relevant; also after an exclusion penalty.
C28_LevelAgrees ==
    rel.pc = "validated" =>
        /\ "confidence_level" \in DOMAIN rel.verdict
        /\ LET v == rel.verdict
           IN /\ v.confidence_level = "high" <=> v.confidence >= 80
              /\ v.confidence_level = "medium"
                    <=> (60 <= v.confidence /\ v.confidence < 80)
              /\ v.confidence_level = "low"
                    <=> (25 <= v.confidence /\ v.confidence < 60)
              /\ v.confidence_level = "very low" <=> ~v.is_relevant


\* C29: every string extract_full_content returns is longer than 100
\* characters: the minimum holds for the cleaned text that is returned.
C29_ReturnedTextIsLong ==
    (efc.pc = "done" /\ efc.result.kind = "text") =>
        efc.result.len > MinContentLen

====
